---- MODULE Spec2Model ----
(***************************************************************************)
(* Model of the build-file parser of lib/BuildSystem/BuildFile.cpp         *)
(* (class BuildFileImpl).                                                  *)
(*                                                                         *)
(* The document is a tree of YAML nodes that the parser walks with forward *)
(* iterators.  The model reveals the document as the iterators advance:    *)
(* every step that executes `begin()` / `++it` draws the entry the         *)
(* iterator yields (or the end of the collection) from a small set, so a   *)
(* behaviour of the model is the parse of one document, read front to back.*)
(* What the parser has read is kept in history variables (rootRead,        *)
(* clientRead, decls, refs, calls); the part of a document behind the      *)
(* point where the parse stopped is never read by the code and is          *)
(* therefore arbitrary.                                                    *)
(***************************************************************************)
EXTENDS Integers, Sequences, FiniteSets, TLC

(***************************************************************************)
(* Bounds of the model.                                                    *)
(***************************************************************************)
\* Number of entries (key/value pairs) of all the mappings below the root
\* mapping together.  The root mapping needs no bound: the parse reads at
\* most one entry for `client`, one per section and one trailing entry.
MaxEntries == 3
\* The same for the documents whose client mapping is empty.
MaxSectionEntries == 4

(***************************************************************************)
(* YAML tree nodes (llvm::yaml::Node): a kind, the text of a scalar and    *)
(* the items of a sequence.  The entries of a mapping are not part of the  *)
(* node: they are drawn when the parser iterates over it.                  *)
(***************************************************************************)
ScalarN(t) == [type |-> "Scalar", text |-> t, items |-> <<>>]

MapN == [type |-> "Mapping", text |-> "", items |-> <<>>]

SeqN(s) == [type |-> "Sequence", text |-> "", items |-> s]

NullN == [type |-> "Null", text |-> "", items |-> <<>>]

\* The end of a collection (it == end()).
End == [key |-> NullN, value |-> NullN, atEnd |-> TRUE]

Entry(k, v) == [key |-> k, value |-> v, atEnd |-> FALSE]

\* stringFromScalarNode: the text of a scalar node.
stringFromScalarNode(n) == n.text

\* nodeIsScalarString: the node is a scalar and its text is `name`.
nodeIsScalarString(n, name) ==
    IF n.type # "Scalar" THEN FALSE ELSE stringFromScalarNode(n) = name

(***************************************************************************)
(* The names and texts documents are built from.                           *)
(***************************************************************************)
ToolNames == {"shell", "cc"}

NodeNames == {"a", "b"}

TargetNames == {"all", "test"}

TaskNames == {"t1", "t2"}

\* (mutant of the order of the section tests: `tasks` is tested before
\* `nodes`)
SectionNamesTasksFirst == <<"tools", "targets", "tasks", "nodes">>

SectionNames == <<"tools", "targets", "nodes", "tasks">>

RootKeyTexts == {"client", "tools", "targets", "nodes", "tasks", "other"}

VersionTexts == {"007", "4294967295", "4294967296", "1x", ""}

\* The entries a root mapping can hold.
RootEntries ==
    { Entry(ScalarN(t), MapN) : t \in RootKeyTexts }
    \cup { Entry(ScalarN(t), ScalarN("v")) : t \in RootKeyTexts \ {"other"} }
    \cup { Entry(SeqN(<<>>), MapN) }

\* The root entries of the documents of SpecSections, after `client`: the
\* sections in any order, with mapping values, and an unknown key.
SectionRootEntries ==
    { Entry(ScalarN(t), MapN) : t \in RootKeyTexts \ {"client"} }

\* The entries a client mapping can hold.
ClientEntries ==
    { Entry(ScalarN("name"), ScalarN("n1")) }
    \cup { Entry(ScalarN("version"), ScalarN(t)) : t \in VersionTexts }
    \cup { Entry(ScalarN(k), ScalarN("v")) : k \in {"k1", "k2"} }
    \cup { Entry(SeqN(<<>>), ScalarN("v")), Entry(ScalarN("k1"), MapN) }

\* The sequence values of the documents (the node names of a target, the
\* inputs and the outputs of a task): scalars, or a nested mapping.
SeqValues ==
    { SeqN(<<>>),
      SeqN(<< ScalarN("a") >>),
      SeqN(<< ScalarN("a"), ScalarN("b") >>),
      SeqN(<< ScalarN("a"), MapN >>) }

\* The entries of an attribute mapping of a tool or of a node.
AttrEntries ==
    { Entry(ScalarN("args"), ScalarN("v")),
      Entry(SeqN(<<>>), ScalarN("v")),
      Entry(ScalarN("args"), MapN) }

\* The entries of the tools and of the nodes section.
ToolsEntries ==
    { Entry(ScalarN(n), MapN) : n \in ToolNames }
    \cup { Entry(SeqN(<<>>), MapN), Entry(ScalarN("shell"), ScalarN("v")) }

NodesEntries ==
    { Entry(ScalarN(n), MapN) : n \in NodeNames }
    \cup { Entry(SeqN(<<>>), MapN), Entry(ScalarN("a"), ScalarN("v")) }

\* The entries of the targets section.
TargetsEntries ==
    { Entry(ScalarN(n), v) : n \in TargetNames, v \in SeqValues }
    \cup { Entry(SeqN(<<>>), SeqN(<<>>)), Entry(ScalarN("all"), MapN) }

\* The entries of the tasks section (the value is the task's mapping).
TasksEntries ==
    { Entry(ScalarN(n), MapN) : n \in TaskNames }
    \cup { Entry(SeqN(<<>>), MapN), Entry(ScalarN("t1"), ScalarN("v")) }

\* The entries of a task's mapping.
TaskAttrEntries ==
    { Entry(ScalarN("tool"), ScalarN(t)) : t \in ToolNames }
    \cup { Entry(ScalarN("tool"), MapN) }
    \cup { Entry(ScalarN(k), v) : k \in {"inputs", "outputs"},
                                  v \in SeqValues \cup {ScalarN("v")} }
    \cup { Entry(ScalarN("args"), ScalarN("v")),
           Entry(ScalarN("args"), MapN),
           Entry(SeqN(<<>>), ScalarN("v")) }

(***************************************************************************)
(* State.                                                                  *)
(***************************************************************************)
VARIABLES
    pc,          \* position of the parse
    remaining,   \* entries the mappings below the root may still yield
    it,          \* parseRootNode: the root iterator's current entry
    stage,       \* parseRootNode: the next section test (1..4), 5 = trailing
    rootRead,    \* history: the root entries the iterator has yielded
    clientRead,  \* history: the client entries read
    name,        \* parseClientMapping: std::string name
    version,     \* parseClientMapping: uint32_t version (decimal digits)
    properties,  \* parseClientMapping: property_list_type properties
    clientArgs,  \* what delegate.configureClient received
    tools,       \* BuildFileImpl::tools   (name -> tool instance)
    targets,     \* BuildFileImpl::targets (name -> target)
    nodes,       \* BuildFileImpl::nodes   (name -> node instance)
    tasks,       \* BuildFileImpl::tasks   (name -> task)
    cur,         \* the tool, node or task whose attributes are being read
    decls,       \* history: the target and task entries read
    refs,        \* history: what getOrCreateTool / getOrCreateNode returned
    calls,       \* history: calls on the delegate and on the entities
    nextId,      \* identity of the next instance created
    result       \* what load() returned

vars == << pc, remaining, it, stage, rootRead, clientRead, name, version,
           properties, clientArgs, tools, targets, nodes, tasks, cur, decls,
           refs, calls, nextId, result >>

\* A call on the delegate or on an entity, or a registry insertion.
Call(op, nm, id, flag) == [op |-> op, name |-> nm, id |-> id, flag |-> flag]

\* delegate.error(mainFilename, message)
ErrorCall(msg) == Call("error", msg, 0, FALSE)

\* Registry insertion `map[name] = std::move(ptr)`.
\* (mutant: an existing entry is kept, as std::map::insert would)
PutKeepFirst(map, nm, obj) ==
    [n \in DOMAIN map \cup {nm} |-> IF n \in DOMAIN map THEN map[n] ELSE obj]

Put(map, nm, obj) ==
    [n \in DOMAIN map \cup {nm} |-> IF n = nm THEN obj ELSE map[n]]

Empty == [n \in {} |-> 0]

NoCur == [id |-> 0, name |-> "", tool |-> 0, inputs |-> <<>>,
          outputs |-> <<>>, attrs |-> <<>>]

NoClientArgs == [called |-> 0, name |-> "", version |-> <<0>>, props |-> <<>>]

NumCalls(op) == Cardinality({i \in 1..Len(calls) : calls[i].op = op})

InitWith(size) ==
    /\ pc = "load"
    /\ remaining = size
    /\ it = End
    /\ stage = 0
    /\ rootRead = <<>>
    /\ clientRead = <<>>
    /\ name = ""
    /\ version = <<0>>
    /\ properties = <<>>
    /\ clientArgs = NoClientArgs
    /\ tools = Empty
    /\ targets = Empty
    /\ nodes = Empty
    /\ tasks = Empty
    /\ cur = NoCur
    /\ decls = <<>>
    /\ refs = <<>>
    /\ calls = <<>>
    /\ nextId = 1
    /\ result = "none"


(***************************************************************************)
(* llvm::StringRef::getAsInteger(10, uint32_t&): the text of a decimal     *)
(* number.  Texts are given by their characters.                           *)
(***************************************************************************)
Chars(t) ==
    CASE t = "007" -> <<"0", "0", "7">>
      [] t = "4294967295" -> <<"4", "2", "9", "4", "9", "6", "7", "2", "9", "5">>
      [] t = "4294967296" -> <<"4", "2", "9", "4", "9", "6", "7", "2", "9", "6">>
      [] t = "1x" -> <<"1", "x">>
      [] t = "n1" -> <<"n", "1">>
      [] t = "v" -> <<"v">>
      [] OTHER -> <<>>

DigitVal(c) ==
    CASE c = "0" -> 0 [] c = "1" -> 1 [] c = "2" -> 2 [] c = "3" -> 3
      [] c = "4" -> 4 [] c = "5" -> 5 [] c = "6" -> 6 [] c = "7" -> 7
      [] c = "8" -> 8 [] c = "9" -> 9 [] OTHER -> 99

\* The decimal digits of UINT32_MAX = 4294967295.
UInt32MaxDigits == <<4, 2, 9, 4, 9, 6, 7, 2, 9, 5>>

RECURSIVE StripZeros(_)
StripZeros(ds) ==
    IF Len(ds) > 1 /\ Head(ds) = 0 THEN StripZeros(Tail(ds)) ELSE ds

\* a <= b for digit sequences of the same length.
RECURSIVE DigitsLeq(_, _)
DigitsLeq(a, b) ==
    IF a = <<>> THEN TRUE
    ELSE IF Head(a) # Head(b) THEN Head(a) < Head(b)
    ELSE DigitsLeq(Tail(a), Tail(b))

\* getAsInteger(10, version): [failed, value].  It fails on an empty text,
\* on a character that is no decimal digit and on a value above UINT32_MAX.
GetAsInteger(t) ==
    LET cs == Chars(t)
        ds == StripZeros([i \in 1..Len(cs) |-> DigitVal(cs[i])])
        bad == \/ cs = <<>>
               \/ \E i \in 1..Len(cs) : DigitVal(cs[i]) >= 10
               \/ Len(ds) > Len(UInt32MaxDigits)
               \/ Len(ds) = Len(UInt32MaxDigits) /\ ~DigitsLeq(ds, UInt32MaxDigits)
    IN [failed |-> bad, value |-> IF bad THEN <<0>> ELSE ds]

(***************************************************************************)
(* getOrCreateTool / getOrCreateNode.  `found` is what the delegate's      *)
(* lookupTool answers (a tool, or null).  The result is the returned       *)
(* pointer (0 = nullptr) and the registry, call log and instance counter   *)
(* after the call.                                                         *)
(***************************************************************************)
Ref(kind, nm, id, flag) == [kind |-> kind, name |-> nm, id |-> id, flag |-> flag]

getOrCreateTool(nm, found, tls, cls, rfs, nid) ==
    IF nm \in DOMAIN tls
    THEN [ptr |-> tls[nm], reg |-> tls, calls |-> cls,
          refs |-> Append(rfs, Ref("tool", nm, tls[nm], FALSE)), nextId |-> nid]
    ELSE IF ~found
    THEN [ptr |-> 0, reg |-> tls,
          calls |-> cls \o << Call("lookupTool", nm, 0, FALSE),
                              ErrorCall("invalid tool type in 'tools' map") >>,
          refs |-> rfs, nextId |-> nid]
    ELSE [ptr |-> nid, reg |-> Put(tls, nm, nid),
          calls |-> cls \o << Call("lookupTool", nm, nid, FALSE),
                              Call("store.tools", nm, nid, FALSE) >>,
          refs |-> Append(rfs, Ref("tool", nm, nid, FALSE)), nextId |-> nid + 1]

\* (mutant of getOrCreateNode: the map is not consulted first)
getOrCreateNodeNoCheck(nm, isImplicit, nds, cls, rfs, nid) ==
    [ptr |-> nid,
     reg |-> Put(nds, nm, [id |-> nid, isImplicit |-> isImplicit]),
     calls |-> cls \o << Call("lookupNode", nm, nid, isImplicit),
                         Call("store.nodes", nm, nid, isImplicit) >>,
     refs |-> Append(rfs, Ref("node", nm, nid, isImplicit)),
     nextId |-> nid + 1]

getOrCreateNode(nm, isImplicit, nds, cls, rfs, nid) ==
    IF nm \in DOMAIN nds
    THEN [ptr |-> nds[nm].id, reg |-> nds, calls |-> cls,
          refs |-> Append(rfs, Ref("node", nm, nds[nm].id, isImplicit)),
          nextId |-> nid]
    ELSE [ptr |-> nid,
          reg |-> Put(nds, nm, [id |-> nid, isImplicit |-> isImplicit]),
          calls |-> cls \o << Call("lookupNode", nm, nid, isImplicit),
                              Call("store.nodes", nm, nid, isImplicit) >>,
          refs |-> Append(rfs, Ref("node", nm, nid, isImplicit)),
          nextId |-> nid + 1]

\* The loop over the node names of an `inputs` / `outputs` sequence: every
\* scalar item is resolved with isImplicit = true; the first item that is no
\* scalar stops the loop (ok = FALSE).
RECURSIVE ResolveNodes(_, _, _, _, _, _)
ResolveNodes(items, ptrs, nds, cls, rfs, nid) ==
    IF items = <<>>
    THEN [ok |-> TRUE, ptrs |-> ptrs, reg |-> nds, calls |-> cls, refs |-> rfs,
          nextId |-> nid]
    ELSE IF Head(items).type # "Scalar"
    THEN [ok |-> FALSE, ptrs |-> ptrs, reg |-> nds, calls |-> cls, refs |-> rfs,
          nextId |-> nid]
    ELSE LET r == getOrCreateNode(stringFromScalarNode(Head(items)), TRUE,
                                  nds, cls, rfs, nid)
         IN ResolveNodes(Tail(items), Append(ptrs, r.ptr), r.reg, r.calls,
                         r.refs, r.nextId)

\* The loop over the items of a target's sequence: [ok, names].
RECURSIVE TargetNodeNames(_, _)
TargetNodeNames(items, acc) ==
    IF items = <<>> THEN [ok |-> TRUE, names |-> acc]
    ELSE IF Head(items).type # "Scalar" THEN [ok |-> FALSE, names |-> acc]
    ELSE TargetNodeNames(Tail(items),
                         Append(acc, stringFromScalarNode(Head(items))))

(***************************************************************************)
(* Steps of the parse.                                                     *)
(***************************************************************************)
\* `return false` out of load(), after the calls `cls`.
ReturnFalse(cls) ==
    /\ calls' = cls
    /\ result' = "false"
    /\ pc' = "done"

\* (mutant of the error exits: the error is reported and the parse goes on)
FailAndContinue(msg) ==
    /\ calls' = Append(calls, ErrorCall(msg))
    /\ UNCHANGED << pc, result >>

\* delegate.error(mainFilename, msg); return false;
Fail(msg) == ReturnFalse(Append(calls, ErrorCall(msg)))

\* The entry an iterator below the root yields when it is advanced, within
\* the size of the document.
Yield(e) ==
    /\ e.atEnd \/ remaining > 0
    /\ remaining' = IF e.atEnd THEN remaining ELSE remaining - 1

\* parseRootNode, from its start to the call of parseClientMapping.  Reading
\* the key of begin() of an empty mapping dereferences the end iterator,
\* which is undefined: the process dies, or the read yields something that
\* is not the scalar `client`.
parseRootNode(root, e) ==
    /\ UNCHANGED << remaining, stage, clientRead, name, version, properties, clientArgs,
                    tools, targets, nodes, tasks, cur, decls, refs, nextId >>
    /\ IF root.type # "Mapping"
       THEN /\ Fail("unexpected top-level node")
            /\ e.atEnd
            /\ UNCHANGED << it, rootRead >>
       ELSE /\ it' = e
            /\ rootRead' = IF e.atEnd THEN rootRead ELSE Append(rootRead, e)
            /\ IF e.atEnd
               THEN \/ /\ pc' = "crashed"
                       /\ UNCHANGED << calls, result >>
                    \/ Fail("expected initial mapping key 'client'")
               ELSE IF ~nodeIsScalarString(e.key, "client")
               THEN Fail("expected initial mapping key 'client'")
               ELSE IF e.value.type # "Mapping"
               THEN Fail("unexpected 'client' value (expected map)")
               ELSE /\ pc' = "client"
                    /\ UNCHANGED << calls, result >>

\* load(): open the file, take the first document of the stream and parse
\* its root.
load ==
    /\ pc = "load"
    /\ \E opened \in BOOLEAN, hasDocument \in BOOLEAN :
         IF ~opened
         THEN /\ Fail("unable to open")
              /\ hasDocument
              /\ UNCHANGED << remaining, it, stage, rootRead, clientRead, name,
                              version, properties, clientArgs, tools, targets,
                              nodes, tasks, cur, decls, refs, nextId >>
         ELSE IF ~hasDocument
         THEN /\ Fail("missing document in stream")
              /\ UNCHANGED << remaining, it, stage, rootRead, clientRead, name,
                              version, properties, clientArgs, tools, targets,
                              nodes, tasks, cur, decls, refs, nextId >>
         ELSE \E root \in {MapN, ScalarN("v"), SeqN(<<>>)} :
                \E e \in RootEntries \cup {End} : parseRootNode(root, e)

\* properties.push_back({ key, value })
\* (mutant: the pair is inserted at the front)
PushFront(list, key, value) == << <<key, value>> >> \o list

PushBack(list, key, value) == Append(list, <<key, value>>)

\* parseClientMapping: one turn of the loop over the client entries, or,
\* at the end of the mapping, the call of delegate.configureClient.
parseClientMapping(e, accepted) ==
    /\ Yield(e)
    /\ UNCHANGED << it, rootRead, tools, targets, nodes, tasks, cur, decls,
                    refs, nextId >>
    /\ IF e.atEnd
       THEN /\ clientArgs' = [called |-> clientArgs.called + 1, name |-> name,
                              version |-> version, props |-> properties]
            /\ name' = ""
            /\ version' = <<0>>
            /\ properties' = <<>>
            /\ UNCHANGED clientRead
            /\ IF ~accepted
               THEN /\ ReturnFalse(calls \o
                        << Call("configureClient", name, 0, FALSE),
                           ErrorCall("unable to configure client") >>)
                    /\ UNCHANGED stage
               ELSE /\ calls' = Append(calls, Call("configureClient", name, 0, TRUE))
                    /\ pc' = "advance"
                    /\ stage' = 1
                    /\ UNCHANGED result
       ELSE /\ clientRead' = Append(clientRead, e)
            /\ accepted
            /\ UNCHANGED << clientArgs, stage >>
            /\ IF e.key.type # "Scalar"
               THEN /\ Fail("invalid key type in 'client' map")
                    /\ UNCHANGED << name, version, properties >>
               ELSE IF e.value.type # "Scalar"
               THEN /\ Fail("invalid value type in 'client' map")
                    /\ UNCHANGED << name, version, properties >>
               ELSE LET key == stringFromScalarNode(e.key)
                        value == stringFromScalarNode(e.value)
                    IN IF key = "name"
                       THEN /\ name' = value
                            /\ UNCHANGED << version, properties, pc, calls, result >>
                       ELSE IF key = "version"
                       THEN IF GetAsInteger(value).failed
                            THEN /\ Fail("invalid version number in 'client' map")
                                 /\ UNCHANGED << name, version, properties >>
                            ELSE /\ version' = GetAsInteger(value).value
                                 /\ UNCHANGED << name, properties, pc, calls, result >>
                       ELSE /\ properties' = PushBack(properties, key, value)
                            /\ UNCHANGED << name, version, pc, calls, result >>

\* The client mappings of the documents of SpecSections are empty.
ClientEmpty ==
    /\ pc = "client"
    /\ \E accepted \in BOOLEAN : parseClientMapping(End, accepted)

ClientEntry ==
    /\ pc = "client"
    /\ \E e \in ClientEntries \cup {End}, accepted \in BOOLEAN :
         parseClientMapping(e, accepted)


\* The message of a section whose value is no mapping.
UnexpectedValue(section) ==
    CASE section = "tools" -> "unexpected 'tools' value (expected map)"
      [] section = "targets" -> "unexpected 'targets' value (expected map)"
      [] section = "nodes" -> "unexpected 'nodes' value (expected map)"
      [] section = "tasks" -> "unexpected 'tasks' value (expected map)"

\* The section test of parseRootNode that accepts the entry `e` when the
\* tests from `from` on are tried in their order (0: none does).
\* (mutant: every test is tried again after each section)
MatchingSectionAnyOrder(e, from) ==
    IF e.atEnd \/ ~\E k \in 1..4 : nodeIsScalarString(e.key, SectionNames[k])
    THEN 0
    ELSE CHOOSE k \in 1..4 : nodeIsScalarString(e.key, SectionNames[k])

MatchingSection(e, from) ==
    IF e.atEnd \/ ~\E k \in from..4 : nodeIsScalarString(e.key, SectionNames[k])
    THEN 0
    ELSE CHOOSE k \in from..4 : nodeIsScalarString(e.key, SectionNames[k])

\* parseRootNode after a section: `++it`, then the remaining section tests
\* in their fixed order, then the test for trailing entries.
AdvanceOver(entries) ==
    /\ pc = "advance"
    /\ \E e \in entries \cup {End} :
         LET m == MatchingSection(e, stage)
         IN /\ it' = e
            /\ rootRead' = IF e.atEnd THEN rootRead ELSE Append(rootRead, e)
            /\ UNCHANGED << remaining, clientRead, name, version, properties, clientArgs,
                            tools, targets, nodes, tasks, cur, decls, refs,
                            nextId >>
            /\ IF m # 0
               THEN IF e.value.type # "Mapping"
                    THEN /\ Fail(UnexpectedValue(SectionNames[m]))
                         /\ UNCHANGED stage
                    ELSE /\ pc' = SectionNames[m]
                         /\ stage' = m + 1
                         /\ UNCHANGED << calls, result >>
               ELSE IF ~e.atEnd
               THEN /\ Fail("unexpected trailing top-level section")
                    /\ UNCHANGED stage
               ELSE /\ pc' = "tail"
                    /\ stage' = 5
                    /\ UNCHANGED << calls, result >>

Advance == AdvanceOver(RootEntries)

AdvanceSections == AdvanceOver(SectionRootEntries)

\* load() after parseRootNode returned true: the stream must hold no
\* second document.
LoadTail ==
    /\ pc = "tail"
    /\ UNCHANGED << remaining, it, stage, rootRead, clientRead, name, version,
                    properties, clientArgs, tools, targets, nodes, tasks, cur,
                    decls, refs, nextId >>
    /\ \E additional \in BOOLEAN :
         IF additional
         THEN Fail("unexpected additional document in stream")
         ELSE /\ result' = "true"
              /\ pc' = "done"
              /\ UNCHANGED calls

\* The loop over the attributes of a tool (kind = "tool", back = "tools") or
\* of a node (kind = "node", back = "nodes"): one turn, or the end of the
\* attribute mapping.  `accepted` is what configureAttribute returns.
ConfigureAttributes(kind, back, e, accepted) ==
    /\ Yield(e)
    /\ UNCHANGED << it, stage, rootRead, clientRead, name, version, properties,
                    clientArgs, tools, targets, nodes, tasks, decls, refs,
                    nextId >>
    /\ IF e.atEnd
       THEN /\ pc' = back
            /\ cur' = NoCur
            /\ accepted
            /\ UNCHANGED << calls, result >>
       ELSE /\ UNCHANGED cur
            /\ IF e.key.type # "Scalar"
               THEN Fail("invalid key type in 'tools' map") /\ accepted
               ELSE IF e.value.type # "Scalar"
               THEN Fail("invalid value type in 'tools' map") /\ accepted
               ELSE LET c == Call(IF kind = "tool" THEN "tool.configureAttribute"
                                  ELSE "node.configureAttribute",
                                  stringFromScalarNode(e.key), cur.id, accepted)
                    IN IF ~accepted
                       THEN ReturnFalse(Append(calls, c))
                       ELSE /\ calls' = Append(calls, c)
                            /\ UNCHANGED << pc, result >>

\* parseToolsMapping: one entry of the tools section, up to its attributes.
ToolsEntry ==
    /\ pc = "tools"
    /\ \E e \in ToolsEntries \cup {End}, found \in BOOLEAN :
         /\ Yield(e)
         /\ UNCHANGED << it, stage, rootRead, clientRead, name, version,
                         properties, clientArgs, targets, nodes, tasks, decls >>
         /\ IF e.atEnd
            THEN /\ pc' = "advance"
                 /\ found
                 /\ UNCHANGED << tools, cur, refs, calls, nextId, result >>
            ELSE IF e.key.type # "Scalar"
            THEN /\ Fail("invalid key type in 'tools' map")
                 /\ found
                 /\ UNCHANGED << tools, cur, refs, nextId >>
            ELSE IF e.value.type # "Mapping"
            THEN /\ Fail("invalid value type in 'tools' map")
                 /\ found
                 /\ UNCHANGED << tools, cur, refs, nextId >>
            ELSE LET nm == stringFromScalarNode(e.key)
                     r == getOrCreateTool(nm, found, tools, calls, refs, nextId)
                 IN /\ found \/ nm \notin DOMAIN tools
                    /\ tools' = r.reg
                    /\ refs' = r.refs
                    /\ nextId' = r.nextId
                    /\ IF r.ptr = 0
                       THEN ReturnFalse(r.calls) /\ UNCHANGED cur
                       ELSE /\ calls' = r.calls
                            /\ cur' = [NoCur EXCEPT !.id = r.ptr, !.name = nm]
                            /\ pc' = "toolAttrs"
                            /\ UNCHANGED result

ToolAttr ==
    /\ pc = "toolAttrs"
    /\ \E e \in AttrEntries \cup {End}, accepted \in BOOLEAN :
         ConfigureAttributes("tool", "tools", e, accepted)

\* parseNodesMapping: one entry of the nodes section, up to its attributes.
NodesEntry ==
    /\ pc = "nodes"
    /\ \E e \in NodesEntries \cup {End} :
         /\ Yield(e)
         /\ UNCHANGED << it, stage, rootRead, clientRead, name, version,
                         properties, clientArgs, tools, targets, tasks, decls >>
         /\ IF e.atEnd
            THEN /\ pc' = "advance"
                 /\ UNCHANGED << nodes, cur, refs, calls, nextId, result >>
            ELSE IF e.key.type # "Scalar"
            THEN /\ Fail("invalid key type in 'nodes' map")
                 /\ UNCHANGED << nodes, cur, refs, nextId >>
            ELSE IF e.value.type # "Mapping"
            THEN /\ Fail("invalid value type in 'nodes' map")
                 /\ UNCHANGED << nodes, cur, refs, nextId >>
            ELSE LET nm == stringFromScalarNode(e.key)
                     r == getOrCreateNode(nm, FALSE, nodes, calls, refs, nextId)
                 IN /\ nodes' = r.reg
                    /\ refs' = r.refs
                    /\ nextId' = r.nextId
                    /\ calls' = r.calls
                    /\ cur' = [NoCur EXCEPT !.id = r.ptr, !.name = nm]
                    /\ pc' = "nodeAttrs"
                    /\ UNCHANGED result

NodeAttr ==
    /\ pc = "nodeAttrs"
    /\ \E e \in AttrEntries \cup {End}, accepted \in BOOLEAN :
         ConfigureAttributes("node", "nodes", e, accepted)

\* An entry of the targets or tasks section, as the parser has read it.
\* status is "rejected" when the key or the kind of the value of the entry
\* was refused, "new" while the content of the entry is unread, "open"
\* while it is being read, "failed" once a test of the content failed,
\* "complete" once the end of the content was reached.  id is the target or task
\* created for the entry (0: none), head the initial attribute of a task,
\* callsAt and refsAt the lengths of `calls` and `refs` when the entry was
\* reached.
Decl(kind, nm, id, status) ==
    [kind |-> kind, name |-> nm, id |-> id, status |-> status, head |-> End,
     callsAt |-> Len(calls), refsAt |-> Len(refs)]

\* The end of a target or task entry whose content was accepted: the
\* delegate is told, then the entity is inserted into its map.
\* (mutant: the entity is inserted without the delegate being told)
StoreOnly(kind, nm, id) ==
    << Call(IF kind = "target" THEN "store.targets" ELSE "store.tasks", nm, id, FALSE) >>

LoadedAndStore(kind, nm, id) ==
    << Call(IF kind = "target" THEN "loadedTarget" ELSE "loadedTask", nm, id, FALSE),
       Call(IF kind = "target" THEN "store.targets" ELSE "store.tasks", nm, id, FALSE) >>

\* parseTargetsMapping: one entry of the targets section.
TargetsEntry ==
    /\ pc = "targets"
    /\ \E e \in TargetsEntries \cup {End} :
         /\ Yield(e)
         /\ UNCHANGED << it, stage, rootRead, clientRead, name, version,
                         properties, clientArgs, tools, nodes, tasks, cur, refs >>
         /\ IF e.atEnd
            THEN /\ pc' = "advance"
                 /\ UNCHANGED << targets, decls, calls, nextId, result >>
            ELSE IF e.key.type # "Scalar"
            THEN /\ Fail("invalid key type in 'targets' map")
                 /\ decls' = Append(decls, Decl("target", "", 0, "rejected"))
                 /\ UNCHANGED << targets, nextId >>
            ELSE IF e.value.type # "Sequence"
            THEN /\ Fail("invalid value type in 'targets' map")
                 /\ decls' = Append(decls, Decl("target", stringFromScalarNode(e.key),
                                                0, "rejected"))
                 /\ UNCHANGED << targets, nextId >>
            ELSE LET nm == stringFromScalarNode(e.key)
                     target == [id |-> nextId, name |-> nm,
                                nodeNames |-> TargetNodeNames(e.value.items, <<>>).names]
                 IN /\ nextId' = nextId + 1
                    /\ IF ~TargetNodeNames(e.value.items, <<>>).ok
                       THEN /\ Fail("invalid node type in 'targets' map")
                            /\ decls' = Append(decls, Decl("target", nm, target.id, "failed"))
                            /\ UNCHANGED targets
                       ELSE /\ calls' = calls \o LoadedAndStore("target", nm, target.id)
                            /\ targets' = Put(targets, nm, target)
                            /\ decls' = Append(decls, Decl("target", nm, target.id, "complete"))
                            /\ UNCHANGED << pc, result >>


\* The history entry of the task entry being read.
SetLast(ds, id, status) ==
    [ds EXCEPT ![Len(ds)] = [@ EXCEPT !.id = id, !.status = status]]

SetHead(ds, first) == [ds EXCEPT ![Len(ds)] = [@ EXCEPT !.head = first]]

\* parseTasksMapping: the key and the value of one entry of the tasks
\* section.
TasksEntry ==
    /\ pc = "tasks"
    /\ \E e \in TasksEntries \cup {End} :
         /\ Yield(e)
         /\ UNCHANGED << it, stage, rootRead, clientRead, name, version,
                         properties, clientArgs, tools, targets, nodes, tasks,
                         refs, nextId >>
         /\ IF e.atEnd
            THEN /\ pc' = "advance"
                 /\ UNCHANGED << cur, decls, calls, result >>
            ELSE IF e.key.type # "Scalar"
            THEN /\ Fail("invalid key type in 'tasks' map")
                 /\ decls' = Append(decls, Decl("task", "", 0, "rejected"))
                 /\ UNCHANGED cur
            ELSE IF e.value.type # "Mapping"
            THEN /\ Fail("invalid value type in 'tasks' map")
                 /\ decls' = Append(decls, Decl("task", stringFromScalarNode(e.key),
                                                0, "rejected"))
                 /\ UNCHANGED cur
            ELSE /\ cur' = [NoCur EXCEPT !.name = stringFromScalarNode(e.key)]
                 /\ decls' = Append(decls, Decl("task", stringFromScalarNode(e.key),
                                                0, "new"))
                 /\ pc' = "taskHead"
                 /\ UNCHANGED << calls, result >>

\* The test of the initial attribute of a task: [ok, message].
\* (mutant: the key of the initial attribute is not tested)
InitialAttributeAnyKey(first) ==
    IF first.atEnd
    THEN [ok |-> FALSE, msg |-> "missing 'tool' key in 'task' map"]
    ELSE IF first.value.type # "Scalar"
    THEN [ok |-> FALSE, msg |-> "invalid 'tool' value type in 'tasks' map"]
    ELSE [ok |-> TRUE, msg |-> ""]

InitialAttribute(first) ==
    IF first.atEnd
    THEN [ok |-> FALSE, msg |-> "missing 'tool' key in 'task' map"]
    ELSE IF ~nodeIsScalarString(first.key, "tool")
    THEN [ok |-> FALSE, msg |-> "expected 'tool' initial key in 'tasks' map"]
    ELSE IF first.value.type # "Scalar"
    THEN [ok |-> FALSE, msg |-> "invalid 'tool' value type in 'tasks' map"]
    ELSE [ok |-> TRUE, msg |-> ""]

\* parseTasksMapping: the initial attribute of a task, the lookup of its
\* tool and the creation of the task.
TaskHead ==
    /\ pc = "taskHead"
    /\ \E first \in TaskAttrEntries \cup {End}, found \in BOOLEAN :
         /\ Yield(first)
         /\ UNCHANGED << it, stage, rootRead, clientRead, name, version,
                         properties, clientArgs, targets, nodes, tasks >>
         /\ IF ~InitialAttribute(first).ok
            THEN /\ Fail(InitialAttribute(first).msg)
                 /\ found
                 /\ decls' = SetLast(SetHead(decls, first), 0, "failed")
                 /\ UNCHANGED << tools, cur, refs, nextId >>
            ELSE LET nm == stringFromScalarNode(first.value)
                     r == getOrCreateTool(nm, found, tools, calls, refs, nextId)
                 IN /\ found \/ nm \notin DOMAIN tools
                    /\ tools' = r.reg
                    /\ refs' = r.refs
                    /\ IF r.ptr = 0
                       THEN /\ ReturnFalse(r.calls)
                            /\ decls' = SetLast(SetHead(decls, first), 0, "failed")
                            /\ UNCHANGED << cur, nextId >>
                       ELSE /\ calls' = Append(r.calls,
                                   Call("createTask", cur.name, r.nextId, FALSE))
                            /\ cur' = [cur EXCEPT !.id = r.nextId, !.tool = r.ptr]
                            /\ decls' = SetLast(SetHead(decls, first), r.nextId, "open")
                            /\ nextId' = r.nextId + 1
                            /\ pc' = "taskAttrs"
                            /\ UNCHANGED result

\* An `inputs` (which = "inputs") or `outputs` attribute of the task.
ConfigureNodes(which, value) ==
    LET r == ResolveNodes(value.items, <<>>, nodes, calls, refs, nextId)
    IN IF value.type # "Sequence"
       THEN /\ Fail(IF which = "inputs"
                    THEN "invalid value type for 'inputs' task key"
                    ELSE "invalid value type for 'outputs' task key")
            /\ decls' = SetLast(decls, cur.id, "failed")
            /\ UNCHANGED << nodes, refs, nextId, cur >>
       ELSE /\ nodes' = r.reg
            /\ refs' = r.refs
            /\ nextId' = r.nextId
            /\ IF ~r.ok
               THEN /\ ReturnFalse(Append(r.calls, ErrorCall(
                           IF which = "inputs"
                           THEN "invalid node type in 'inputs' task key"
                           ELSE "invalid node type in 'outputs' task key")))
                    /\ decls' = SetLast(decls, cur.id, "failed")
                    /\ UNCHANGED cur
               ELSE /\ calls' = Append(r.calls,
                           Call(IF which = "inputs" THEN "task.configureInputs"
                                ELSE "task.configureOutputs", cur.name, cur.id, FALSE))
                    /\ cur' = IF which = "inputs"
                              THEN [cur EXCEPT !.inputs = r.ptrs]
                              ELSE [cur EXCEPT !.outputs = r.ptrs]
                    /\ UNCHANGED << decls, pc, result >>

\* parseTasksMapping: one of the remaining attributes of a task, or, at the
\* end of the task's mapping, delegate.loadedTask and the insertion into the
\* tasks map.
TaskAttr ==
    /\ pc = "taskAttrs"
    /\ \E e \in TaskAttrEntries \cup {End}, accepted \in BOOLEAN :
         /\ Yield(e)
         /\ UNCHANGED << it, stage, rootRead, clientRead, name, version,
                         properties, clientArgs, tools, targets >>
         /\ IF e.atEnd
            THEN /\ accepted
                 /\ calls' = calls \o LoadedAndStore("task", cur.name, cur.id)
                 /\ tasks' = Put(tasks, cur.name, cur)
                 /\ decls' = SetLast(decls, cur.id, "complete")
                 /\ cur' = NoCur
                 /\ pc' = "tasks"
                 /\ UNCHANGED << nodes, refs, nextId, result >>
            ELSE IF nodeIsScalarString(e.key, "inputs")
            THEN /\ accepted
                 /\ ConfigureNodes("inputs", e.value)
                 /\ UNCHANGED tasks
            ELSE IF nodeIsScalarString(e.key, "outputs")
            THEN /\ accepted
                 /\ ConfigureNodes("outputs", e.value)
                 /\ UNCHANGED tasks
            ELSE /\ UNCHANGED << tasks, nodes, refs, nextId >>
                 /\ IF e.key.type # "Scalar"
                    THEN /\ accepted
                         /\ Fail("invalid key type in 'tools' map")
                         /\ decls' = SetLast(decls, cur.id, "failed")
                         /\ UNCHANGED cur
                    ELSE IF e.value.type # "Scalar"
                    THEN /\ accepted
                         /\ Fail("invalid value type in 'tools' map")
                         /\ decls' = SetLast(decls, cur.id, "failed")
                         /\ UNCHANGED cur
                    ELSE LET c == Call("task.configureAttribute",
                                       stringFromScalarNode(e.key), cur.id, accepted)
                         IN IF ~accepted
                            THEN /\ ReturnFalse(Append(calls, c))
                                 /\ decls' = SetLast(decls, cur.id, "failed")
                                 /\ UNCHANGED cur
                            ELSE /\ calls' = Append(calls, c)
                                 /\ cur' = [cur EXCEPT !.attrs = Append(@,
                                              << stringFromScalarNode(e.key),
                                                 stringFromScalarNode(e.value) >>)]
                                 /\ UNCHANGED << decls, pc, result >>

Next ==
    \/ load
    \/ ClientEntry
    \/ Advance
    \/ LoadTail
    \/ ToolsEntry
    \/ ToolAttr
    \/ TargetsEntry
    \/ NodesEntry
    \/ NodeAttr
    \/ TasksEntry
    \/ TaskHead
    \/ TaskAttr

\* The documents whose client mapping is empty and whose later root entries
\* are SectionRootEntries, with larger sections.
NextSections ==
    \/ load
    \/ ClientEmpty
    \/ AdvanceSections
    \/ LoadTail
    \/ ToolsEntry
    \/ ToolAttr
    \/ TargetsEntry
    \/ NodesEntry
    \/ NodeAttr
    \/ TasksEntry
    \/ TaskHead
    \/ TaskAttr

Init == InitWith(MaxEntries)

InitSections == InitWith(MaxSectionEntries)

Spec == Init /\ [][Next]_vars

SpecSections == InitSections /\ [][NextSections]_vars


(***************************************************************************)
(* Properties.                                                             *)
(***************************************************************************)
Errors == NumCalls("error")

CallIndices(op) == {i \in 1..Len(calls) : calls[i].op = op}

\* The section a root entry names (1..4), 0 when it names none.
SectionOf(e) ==
    IF e.key.type = "Scalar" /\ \E k \in 1..4 : SectionNames[k] = e.key.text
    THEN CHOOSE k \in 1..4 : SectionNames[k] = e.key.text
    ELSE 0

\* `client` first, then sections in the order tools, targets, nodes, tasks,
\* none of them twice and no other key.
ValidRootKeys(rr) ==
    /\ Len(rr) >= 1
    /\ rr[1].key.type = "Scalar" /\ rr[1].key.text = "client"
    /\ \A i \in 2..Len(rr) : SectionOf(rr[i]) # 0
    /\ \A i, j \in 2..Len(rr) : i < j => SectionOf(rr[i]) < SectionOf(rr[j])

\* C1: whenever the parse returns false, delegate.error has been called at
\* least once.
C1_FalseImpliesError == result = "false" => Errors >= 1

\* C2: the parse returns true only if the root keys are `client` followed by
\* a subsequence of (tools, targets, nodes, tasks) in that order; with every
\* other key sequence the parse ends, returns false and has reported an error.
C2_RootKeyOrder ==
    /\ result = "true" => ValidRootKeys(rootRead)
    /\ pc \in {"done", "crashed"} /\ ~ValidRootKeys(rootRead)
          => result = "false" /\ Errors >= 1

\* The returned parses alone: the part of C2 that the code keeps.
C2_RootKeyOrderWhenReturned ==
    /\ result = "true" => ValidRootKeys(rootRead)
    /\ pc = "done" /\ ~ValidRootKeys(rootRead) => result = "false" /\ Errors >= 1

\* The call of `op` that created the instance id for the name nm.
Created(op, nm, id) ==
    \E c \in 1..Len(calls) :
        calls[c].op = op /\ calls[c].name = nm /\ calls[c].id = id

\* C3: lookupNode is called at most once per node name and lookupTool
\* returns a tool at most once per tool name; every reference to a name
\* received the instance that call created, and that instance is the one the
\* tools / nodes map holds for the name.
C3_SameInstance ==
    /\ \A i \in 1..Len(calls) :
          (calls[i].op = "lookupNode" \/ calls[i].op = "lookupTool") /\ calls[i].id # 0
             => /\ \A j \in (i + 1)..Len(calls) :
                      ~(/\ calls[j].op = calls[i].op
                        /\ calls[j].name = calls[i].name
                        /\ calls[j].id # 0)
                /\ IF calls[i].op = "lookupTool"
                   THEN /\ calls[i].name \in DOMAIN tools
                        /\ tools[calls[i].name] = calls[i].id
                   ELSE /\ calls[i].name \in DOMAIN nodes
                        /\ nodes[calls[i].name].id = calls[i].id
    /\ \A i \in 1..Len(calls) : calls[i].op = "lookupNode" => calls[i].id # 0
    /\ \A i \in 1..Len(refs) :
          IF refs[i].kind = "tool"
          THEN /\ Created("lookupTool", refs[i].name, refs[i].id)
               /\ refs[i].name \in DOMAIN tools
               /\ tools[refs[i].name] = refs[i].id
          ELSE /\ Created("lookupNode", refs[i].name, refs[i].id)
               /\ refs[i].name \in DOMAIN nodes
               /\ nodes[refs[i].name].id = refs[i].id
    /\ \A n \in DOMAIN tools : \A m \in DOMAIN nodes : tools[n] # nodes[m].id
    /\ \A n, m \in DOMAIN tools : tools[n] = tools[m] => n = m
    /\ \A n, m \in DOMAIN nodes : nodes[n].id = nodes[m].id => n = m

\* A node declared in the nodes section was referenced again by a task that
\* also referenced its tool.
C3_Witness ==
    /\ \E i, j \in 1..Len(refs) :
          /\ i < j
          /\ refs[i].kind = "node" /\ refs[j].kind = "node"
          /\ refs[i].name = refs[j].name
          /\ ~refs[i].flag /\ refs[j].flag
    /\ \E i \in 1..Len(refs) : refs[i].kind = "tool"

\* C4: delegate.error is called at most once; it is the last call of the
\* parse and the last change of the maps, and the parse has then returned
\* false.
C4_FirstErrorAborts ==
    /\ \A i \in 1..(Len(calls) - 1) : calls[i].op # "error"
    /\ Len(calls) > 0 /\ calls[Len(calls)].op = "error"
          => pc = "done" /\ result = "false"

\* An error was reported after delegate calls and map insertions.
C4_Witness ==
    /\ Errors = 1
    /\ CallIndices("lookupNode") # {}
    /\ CallIndices("loadedTask") # {}
    /\ DOMAIN tasks # {}


IsNodeRef(i, n) == refs[i].kind = "node" /\ refs[i].name = n

\* C5: a node is implicit exactly when no entry of the nodes section referred
\* to it; the flag passed to lookupNode is the one of the first reference
\* and the node keeps it.
C5_ImplicitFlag ==
    /\ \A n \in DOMAIN nodes :
          /\ \E i \in 1..Len(refs) : IsNodeRef(i, n)
          /\ nodes[n].isImplicit = (\A i \in 1..Len(refs) : IsNodeRef(i, n) => refs[i].flag)
          /\ \A i \in 1..Len(refs) :
                IsNodeRef(i, n) /\ (\A j \in 1..(i - 1) : ~IsNodeRef(j, n))
                   => refs[i].flag = nodes[n].isImplicit
    /\ \A c \in 1..Len(calls) :
          calls[c].op = "lookupNode"
             => /\ calls[c].name \in DOMAIN nodes
                /\ calls[c].flag = nodes[calls[c].name].isImplicit

\* A declared node was referenced by a task and stayed explicit, next to a
\* node that only a task referenced.
C5_Witness ==
    /\ \E n \in DOMAIN nodes :
          /\ ~nodes[n].isImplicit
          /\ \E i \in 1..Len(refs) : IsNodeRef(i, n) /\ refs[i].flag
    /\ \E n \in DOMAIN nodes : nodes[n].isImplicit

\* The initial attribute of a task mapping is not `tool: <scalar>`.
BadHead(h) ==
    \/ h.atEnd
    \/ ~(h.key.type = "Scalar" /\ h.key.text = "tool")
    \/ h.value.type # "Scalar"

TaskDecls == {i \in 1..Len(decls) : decls[i].kind = "task"}

TargetDecls == {i \in 1..Len(decls) : decls[i].kind = "target"}

\* C6: a task mapping that is empty, or whose first key is not `tool`, or
\* whose `tool` value is no scalar, ends the parse with one error; between
\* reaching the entry and that error no tool was looked up or referenced, no
\* task was created, notified or stored.  (What follows the first key in the
\* mapping is never read, so it may hold a `tool` key.)
C6_FirstKeyTool ==
    /\ \A i \in TaskDecls :
          LET d == decls[i]
          IN d.status \in {"open", "failed", "complete"} /\ BadHead(d.head)
                => /\ d.status = "failed"
                   /\ i = Len(decls)
                   /\ d.id = 0
                   /\ pc = "done" /\ result = "false"
                   /\ Len(calls) = d.callsAt + 1
                   /\ calls[Len(calls)].op = "error"
                   /\ Len(refs) = d.refsAt
    /\ \A n \in DOMAIN tasks :
          \E i \in TaskDecls : /\ decls[i].id = tasks[n].id
                               /\ decls[i].status = "complete"
                               /\ ~BadHead(decls[i].head)

\* A task mapping whose first key is `inputs` has ended the parse.
C6_Witness ==
    \E i \in TaskDecls :
        /\ decls[i].status = "failed"
        /\ ~decls[i].head.atEnd
        /\ decls[i].head.key.text = "inputs"
        /\ result = "false"

\* The last entry of the section with the name n.
LastDecl(D, n) ==
    CHOOSE i \in D : decls[i].name = n /\ \A j \in D : decls[j].name = n => j <= i

\* After a parse that returned true, `reg` holds one entity per name of the
\* entries D, the one created for the last entry of that name.
OnePerName(reg, D) ==
    /\ DOMAIN reg = {decls[i].name : i \in D}
    /\ Cardinality(DOMAIN reg) = Cardinality({decls[i].name : i \in D})
    /\ \A n \in DOMAIN reg :
          /\ reg[n].name = n
          /\ reg[n].id = decls[LastDecl(D, n)].id

\* C7: after a parse that returned true the tasks (targets) map holds
\* exactly one entry per distinct name, the entity of the last entry of that
\* name; repeated names have raised no error.
C7_LastDuplicateWins ==
    result = "true" =>
        /\ Errors = 0
        /\ OnePerName(tasks, TaskDecls)
        /\ OnePerName(targets, TargetDecls)

\* A parse returned true for a document with two tasks of the same name.
C7_Witness ==
    /\ result = "true"
    /\ \E i, j \in TaskDecls : i < j /\ decls[i].name = decls[j].name
    /\ Cardinality(DOMAIN tasks) = 1

\* C8: configureAttribute is never called on a task with one of the keys
\* `tool`, `inputs`, `outputs`.
C8_NoReservedAttribute ==
    \A c \in CallIndices("task.configureAttribute") :
        calls[c].name \notin {"tool", "inputs", "outputs"}

LoadedOp(kind) == IF kind = "target" THEN "loadedTarget" ELSE "loadedTask"

ConfigureOps ==
    {"createTask", "task.configureInputs", "task.configureOutputs",
     "task.configureAttribute"}

\* C9: an entry whose content was accepted is notified exactly once, after
\* the calls that configure it and before it is stored; an entry that failed
\* is neither notified nor stored; everything stored has been notified.
C9_NotifiedBeforeStored ==
    /\ \A c \in 1..Len(calls) :
          calls[c].op \in {"loadedTask", "loadedTarget"} =>
              \* the entity is stored after the notification,
              /\ \E s \in (c + 1)..Len(calls) :
                    /\ calls[s].id = calls[c].id
                    /\ calls[s].op = (IF calls[c].op = "loadedTask"
                                      THEN "store.tasks" ELSE "store.targets")
              \* is notified once and was configured before,
              /\ \A k \in (c + 1)..Len(calls) :
                    calls[k].id = calls[c].id
                       => /\ calls[k].op # calls[c].op
                          /\ calls[k].op \notin ConfigureOps
              \* and belongs to an entry whose content was accepted.
              /\ \E i \in 1..Len(decls) :
                    /\ decls[i].id = calls[c].id
                    /\ decls[i].name = calls[c].name
                    /\ LoadedOp(decls[i].kind) = calls[c].op
                    /\ decls[i].status = "complete"
    /\ \A s \in 1..Len(calls) :
          calls[s].op \in {"store.tasks", "store.targets"} =>
              /\ \E c \in 1..(s - 1) :
                    /\ calls[c].id = calls[s].id
                    /\ calls[c].op = (IF calls[s].op = "store.tasks"
                                      THEN "loadedTask" ELSE "loadedTarget")
              /\ \A k \in (s + 1)..Len(calls) :
                    calls[k].id = calls[s].id => calls[k].op # calls[s].op
    /\ \A i \in 1..Len(decls) :
          IF decls[i].status = "complete"
          THEN Created(LoadedOp(decls[i].kind), decls[i].name, decls[i].id)
          ELSE /\ \A c \in 1..Len(calls) :
                     calls[c].id = decls[i].id
                        => calls[c].op \notin {"loadedTask", "loadedTarget",
                                              "store.tasks", "store.targets"}
               /\ \A n \in DOMAIN tasks : tasks[n].id # decls[i].id
               /\ \A n \in DOMAIN targets : targets[n].id # decls[i].id
    /\ \A n \in DOMAIN tasks : Created("loadedTask", n, tasks[n].id)
    /\ \A n \in DOMAIN targets : Created("loadedTarget", n, targets[n].id)

\* A task with inputs was notified and stored, and a later task, created
\* too, failed.
C9_Witness ==
    /\ \E i \in TaskDecls :
          /\ decls[i].status = "complete"
          /\ \E c \in CallIndices("task.configureInputs") : calls[c].id = decls[i].id
          /\ decls[i].name \in DOMAIN tasks
    /\ \E i \in TargetDecls : decls[i].status = "complete"

\* The client entries the parser accepts.
ValidVersions == {"007", "4294967295"}

ValidClientEntry(e) ==
    /\ e.key.type = "Scalar"
    /\ e.value.type = "Scalar"
    /\ e.key.text = "version" => e.value.text \in ValidVersions

IsProperty(e) == e.key.text \notin {"name", "version"}

\* The pairs of the client entries read, `name` and `version` left out.
ExpectedProperties ==
    LET ps == SelectSeq(clientRead, IsProperty)
    IN [i \in 1..Len(ps) |-> << ps[i].key.text, ps[i].value.text >>]

\* The parse has entered the client mapping.
ClientEntered ==
    /\ rootRead # <<>>
    /\ rootRead[1].key = ScalarN("client")
    /\ rootRead[1].value.type = "Mapping"

\* C10: configureClient is called once the client mapping was read to its
\* end with scalar keys and values and valid versions only, exactly once,
\* before every lookupTool, lookupNode, loadedTarget and loadedTask, with
\* the pairs of the mapping other than `name` and `version` in their order;
\* it is not called otherwise.
C10_ConfigureClient ==
    /\ clientArgs.called <= 1
    /\ NumCalls("configureClient") = clientArgs.called
    /\ clientArgs.called = 1 =>
          /\ \A i \in 1..Len(clientRead) : ValidClientEntry(clientRead[i])
          /\ clientArgs.props = ExpectedProperties
          /\ calls[1].op = "configureClient"
    /\ (\E i \in 1..Len(clientRead) : ~ValidClientEntry(clientRead[i]))
          => clientArgs.called = 0
    /\ ( /\ pc # "client"
         /\ ClientEntered
         /\ \A i \in 1..Len(clientRead) : ValidClientEntry(clientRead[i]) )
          => clientArgs.called = 1
    /\ \A c \in CallIndices("lookupTool") \cup CallIndices("lookupNode")
               \cup CallIndices("loadedTarget") \cup CallIndices("loadedTask") :
          \E k \in CallIndices("configureClient") : k < c

\* configureClient received two different properties of a client mapping
\* that also held a `name` or a `version`.
C10_Witness ==
    /\ clientArgs.called = 1
    /\ Len(clientArgs.props) = 2
    /\ clientArgs.props[1] # clientArgs.props[2]
    /\ Len(clientRead) = 3

\* parseRootNode went past the test of the node kind: the root is a mapping.
RootIsMapping ==
    /\ pc # "load"
    /\ \A i \in 1..Len(calls) :
          calls[i].op = "error" =>
              /\ calls[i].name # "unable to open"
              /\ calls[i].name # "missing document in stream"
              /\ calls[i].name # "unexpected top-level node"

\* The root mapping does not start with the scalar key `client`: it has no
\* entry at all, or its first key is something else.
MissingClient ==
    /\ RootIsMapping
    /\ \/ rootRead = <<>>
       \/ ~nodeIsScalarString(rootRead[1].key, "client")

\* `it->getKey()` was evaluated while `it` was mapping->end(): the root
\* mapping yielded no entry to the `begin()` of parseRootNode.
ReadAtEnd == RootIsMapping /\ rootRead = <<>>

\* C11: for every root mapping whose first key is not the scalar `client`,
\* the empty root mapping included, the parse calls delegate.error with the
\* missing-client message, as its only call, and returns false, and it has
\* not read the entry at the end of the mapping.
C11_MissingClientReported ==
    MissingClient
       => /\ pc = "done"
          /\ result = "false"
          /\ calls = << ErrorCall("expected initial mapping key 'client'") >>
          /\ ~ReadAtEnd

\* The root mappings with at least one entry alone: the part of C11 that
\* the code keeps.
C11_MissingClientReportedNonEmpty ==
    MissingClient /\ rootRead # <<>>
       => /\ pc = "done"
          /\ result = "false"
          /\ calls = << ErrorCall("expected initial mapping key 'client'") >>

\* A root entry after the first has the scalar key `section`.
SectionKeyRead(section) ==
    \E i \in 2..Len(rootRead) : nodeIsScalarString(rootRead[i].key, section)

IsLookupNode(c, flag) == calls[c].op = "lookupNode" /\ calls[c].flag = flag

\* C12: the node registry is empty when the nodes section starts being
\* parsed, since the sections before it create no node and the tasks section
\* comes after it; hence every lookupNode(name, false) call precedes every
\* lookupNode(name, true) call, and no entry of the nodes section refers to
\* a node after a task has referred to one.
C12_ExplicitBeforeImplicit ==
    /\ ~SectionKeyRead("nodes") /\ ~SectionKeyRead("tasks")
          => nodes = Empty /\ \A c \in 1..Len(calls) : calls[c].op # "lookupNode"
    /\ pc = "nodes" /\ (\A i \in 1..Len(refs) : refs[i].kind = "node" => refs[i].flag)
          => nodes = Empty /\ \A i \in 1..Len(refs) : refs[i].kind # "node"
    /\ \A c \in 1..Len(calls) :
          IsLookupNode(c, TRUE)
             => \A d \in (c + 1)..Len(calls) : ~IsLookupNode(d, FALSE)
    /\ \A i \in 1..Len(refs) :
          refs[i].kind = "node" /\ refs[i].flag
             => \A j \in (i + 1)..Len(refs) :
                   ~(refs[j].kind = "node" /\ ~refs[j].flag)

\* The nodes section created a node and a task then referred to it and
\* created another one: lookupNode(a, false) was followed by
\* lookupNode(b, true), and the reference to `a` made no call.
C12_Witness ==
    /\ \E c, d \in 1..Len(calls) :
          /\ c < d
          /\ IsLookupNode(c, FALSE)
          /\ IsLookupNode(d, TRUE)
          /\ calls[c].name # calls[d].name
    /\ \E i, j \in 1..Len(refs) :
          /\ i < j
          /\ refs[i].kind = "node" /\ ~refs[i].flag
          /\ refs[j].kind = "node" /\ refs[j].flag
          /\ refs[i].name = refs[j].name

====
